---- MODULE Spec2Model ----
(***************************************************************************)
(* A model of zk-schnorr: Schnorr signatures over a prime-order group with *)
(* a per-key base g, Fiat-Shamir challenges drawn from a transcript, a     *)
(* single verifier and a randomized batch verifier, and the 64-byte        *)
(* encoding of verification keys.                                          *)
(*                                                                         *)
(* The group is the cyclic group of prime order Order, written additively: *)
(* a point is its discrete logarithm to the base point, so scalar          *)
(* multiplication is multiplication modulo Order.  A compressed point is a *)
(* string of CompressedLen bytes, and only the canonical strings           *)
(* decompress.  The transcript is the string of everything absorbed, and   *)
(* a challenge is a function of that whole string.                         *)
(***************************************************************************)
EXTENDS Integers, Sequences, FiniteSets, TLC

VARIABLES key, sig, last, panicked, batch, eqs, batchResult

vars == <<key, sig, last, panicked, batch, eqs, batchResult>>

(***************************************************************************)
(* Bounds of the model.                                                    *)
(***************************************************************************)
MaxTag == 2
MaxSecret == 1
MaxRand == 1
MaxNonce == 1
MaxBatch == 2
MaxAppends == 2
MaxHandAppends == 1

(***************************************************************************)
(* Option values: NoVal is None, Some(v) is Some(v).                       *)
(***************************************************************************)
NoVal == <<>>
Some(v) == <<v>>
Has(o) == o # <<>>
Get(o) == o[1]

Min(a, b) == IF a < b THEN a ELSE b

(***************************************************************************)
(* Scalars: the field of integers modulo the group order.                  *)
(***************************************************************************)
Order == 5
Scalars == 0 .. (Order - 1)
ScalarOne == 1
SAdd(a, b) == (a + b) % Order
SMul(a, b) == (a * b) % Order
SNeg(a) == (Order - a) % Order

(***************************************************************************)
(* Points, and their compressed encoding.  A canonical encoding has an     *)
(* even first byte (the canonical sign choice) and the all-zero string is  *)
(* the identity; every other string fails to decompress.                   *)
(***************************************************************************)
Identity == 0
BasePoint == 1
Points == 0 .. (Order - 1)
PAdd(P, R) == (P + R) % Order
PMul(s, P) == (s * P) % Order
is_identity(P) == P = Identity

CompressedLen == 32
KeyLen == 64

compress(P) == [i \in 1 .. CompressedLen |-> IF i = 1 THEN 2 * P ELSE 0]
decompress(b) ==
    IF /\ b[1] % 2 = 0
       /\ b[1] \div 2 \in Points
       /\ \A i \in 2 .. CompressedLen : b[i] = 0
    THEN Some(b[1] \div 2)
    ELSE NoVal

RECURSIVE MsmSum(_, _, _)
MsmSum(scalars, points, n) ==
    IF n = 0 THEN Identity
    ELSE PAdd(MsmSum(scalars, points, n - 1), PMul(scalars[n], Get(points[n])))

\* Sum of scalars[i] * points[i]; None when a point is None.
optional_multiscalar_mul(scalars, points) ==
    IF \E i \in 1 .. Len(points) : ~Has(points[i])
    THEN NoVal
    ELSE Some(MsmSum(scalars, points, Min(Len(scalars), Len(points))))

(***************************************************************************)
(* Results.                                                                *)
(***************************************************************************)
Ok == "Ok"
InvalidSignature == "InvalidSignature"
InvalidBatch == "InvalidBatch"

(***************************************************************************)
(* The transcript: the string of what was absorbed, each message framed by *)
(* its label and its length.                                               *)
(***************************************************************************)
LabelDomSep == <<100>>
LabelG == <<71>>
LabelH == <<72>>
LabelR == <<82>>
LabelChallenge == <<99>>
ProtocolTag == <<122>>

append_message(t, label, message) == t \o label \o <<Len(message)>> \o message
TranscriptNew(tag) == append_message(<<>>, LabelDomSep, tag)
zkschnorr_domain_sep(t) == append_message(t, LabelDomSep, ProtocolTag)
append_point(t, label, point) == append_message(t, label, point)

\* The digest of bytes[lo .. hi]: every byte counts, weighted by its place.
RECURSIVE Absorb(_, _, _)
Absorb(bytes, lo, hi) ==
    IF lo > hi THEN 0
    ELSE IF lo = hi THEN (((lo % (Order - 1)) + 1) * (bytes[lo] + 1)) % Order
    ELSE LET mid == (lo + hi) \div 2
         IN  (Absorb(bytes, lo, mid) + Absorb(bytes, mid + 1, hi)) % Order

challenge_scalar(t, label) == Absorb(t \o label, 1, Len(t) + Len(label))

(***************************************************************************)
(* Inputs.                                                                 *)
(***************************************************************************)
LabelMsg == <<108>>
Transcripts ==
    {TranscriptNew(<<tag>>) : tag \in 1 .. MaxTag}
    \cup {append_message(TranscriptNew(<<1>>), LabelMsg, <<1>>)}

\* The tag of the message API's transcript, the tag the documentation's batch
\* example gives its transcripts, and the labels and messages signed.
SignMessageTag == <<115>>
ElgamalTag == <<69>>
LabelOther == <<109>>
MessageInputs == {<<LabelMsg, <<1>>>>, <<LabelMsg, <<2>>>>, <<LabelOther, <<1>>>>}
MessageTranscripts ==
    {append_message(TranscriptNew(tag), x[1], x[2]) :
        tag \in {SignMessageTag, ElgamalTag}, x \in MessageInputs}

\* A string of CompressedLen bytes that is no canonical encoding.
BadEncoding == [i \in 1 .. CompressedLen |-> 255]

WellFormedKeyBytes ==
    {compress(1) \o compress(2), compress(0) \o compress(3),
     BadEncoding \o compress(1), compress(1) \o BadEncoding}
Secrets == 0 .. MaxSecret
Rands == 0 .. MaxRand
Nonces == 0 .. MaxNonce

\* Every string of CompressedLen bytes the inputs can put into a key or a
\* signature.
Encodings ==
    {compress(P) : P \in Points} \cup {BadEncoding}
    \cup {SubSeq(b, 1, CompressedLen) : b \in WellFormedKeyBytes}
    \cup {SubSeq(b, CompressedLen + 1, KeyLen) : b \in WellFormedKeyBytes}

KeyInputs ==
    WellFormedKeyBytes
    \cup {SubSeq(compress(1) \o compress(2), 1, KeyLen - 1)}
    \cup {compress(1) \o compress(2) \o <<0>>}

\* The challenge of sign and verify_batched: the domain tag, g, h and R are
\* absorbed in this order, then the challenge is drawn.
ChallengeOf(t, g, h, R) ==
    challenge_scalar(
        append_point(
            append_point(
                append_point(zkschnorr_domain_sep(t), LabelG, g),
                LabelH, h),
            LabelR, R),
        LabelChallenge)

\* ChallengeOf, computed once for every input of the model.
ChallengeTable ==
    [x \in (Transcripts \cup MessageTranscripts) \X Encodings \X Encodings \X Encodings |->
        ChallengeOf(x[1], x[2], x[3], x[4])] @@ <<>>

Challenge(t, pubkey, R) == ChallengeTable[<<t, pubkey.g, pubkey.h, R>>]

(***************************************************************************)
(* Verification keys.                                                      *)
(***************************************************************************)
from_compressed(p, q) == [g |-> p, h |-> q]
DefaultKey == from_compressed(compress(Identity), compress(Identity))
from_secret_decompressed(r) == PMul(r, BasePoint)
from_secret(privkey, r) ==
    LET g == from_secret_decompressed(r)
        h == PMul(privkey, g)
    IN  from_compressed(compress(g), compress(h))

\* to_bytes with h written before g.
to_bytes_h_first(k) == k.h \o k.g

to_bytes(k) == k.g \o k.h
to_bytes_array(k) ==
    [i \in 1 .. KeyLen |-> IF i <= CompressedLen THEN k.g[i] ELSE k.h[i - CompressedLen]]

\* from_bytes that takes any input of at least KeyLen bytes.
from_bytes_long(bytes) ==
    IF Len(bytes) < KeyLen
    THEN [ok |-> FALSE, err |-> InvalidSignature]
    ELSE [ok |-> TRUE,
          key |-> [g |-> SubSeq(bytes, 1, CompressedLen),
                   h |-> SubSeq(bytes, CompressedLen + 1, KeyLen)]]

\* from_bytes that decompresses both halves before it returns the key.
from_bytes_eager(bytes) ==
    IF Len(bytes) # KeyLen
    THEN [ok |-> FALSE, err |-> InvalidSignature]
    ELSE IF ~Has(decompress(SubSeq(bytes, 1, CompressedLen)))
            \/ ~Has(decompress(SubSeq(bytes, CompressedLen + 1, KeyLen)))
    THEN [ok |-> FALSE, err |-> InvalidSignature]
    ELSE [ok |-> TRUE,
          key |-> [g |-> SubSeq(bytes, 1, CompressedLen),
                   h |-> SubSeq(bytes, CompressedLen + 1, KeyLen)]]

from_bytes(bytes) ==
    IF Len(bytes) # KeyLen
    THEN [ok |-> FALSE, err |-> InvalidSignature]
    ELSE [ok |-> TRUE,
          key |-> [g |-> SubSeq(bytes, 1, CompressedLen),
                   h |-> SubSeq(bytes, CompressedLen + 1, KeyLen)]]

(***************************************************************************)
(* Signatures.                                                             *)
(***************************************************************************)
\* sign with the response computed as r + c + privkey.
sign_added(t, pubkey, privkey, r) ==
    LET G == decompress(pubkey.g) IN
    IF ~Has(G) THEN [panic |-> TRUE]
    ELSE LET R == compress(PMul(r, Get(G)))
             c == Challenge(t, pubkey, R)
             s == SAdd(r, SAdd(c, privkey))
         IN  [panic |-> FALSE, s |-> s, R |-> R]

\* sign with the nonce r that the transcript's generator yields; the unwrap
\* of g's decompression panics on None.
sign(t, pubkey, privkey, r) ==
    LET G == decompress(pubkey.g) IN
    IF ~Has(G) THEN [panic |-> TRUE]
    ELSE LET R == compress(PMul(r, Get(G)))
             c == Challenge(t, pubkey, R)
             s == SAdd(r, SMul(c, privkey))
         IN  [panic |-> FALSE, s |-> s, R |-> R]

\* verify_batched with s in place of -s.
verify_batched_not_negated(s, R, t, pubkey) ==
    LET c == Challenge(t, pubkey, R) IN
    [basepoint_scalar |-> s,
     dynamic_scalars  |-> <<ScalarOne, c>>,
     dynamic_points   |-> <<decompress(pubkey.g), decompress(R), decompress(pubkey.h)>>]

\* verify_batched with the scalars of R and h exchanged.
verify_batched_scalars_swapped(s, R, t, pubkey) ==
    LET c == Challenge(t, pubkey, R) IN
    [basepoint_scalar |-> SNeg(s),
     dynamic_scalars  |-> <<c, ScalarOne>>,
     dynamic_points   |-> <<decompress(pubkey.g), decompress(R), decompress(pubkey.h)>>]

\* verify_batched with the points of R and h exchanged.
verify_batched_swapped(s, R, t, pubkey) ==
    LET c == Challenge(t, pubkey, R) IN
    [basepoint_scalar |-> SNeg(s),
     dynamic_scalars  |-> <<ScalarOne, c>>,
     dynamic_points   |-> <<decompress(pubkey.g), decompress(pubkey.h), decompress(R)>>]

\* The equation verify_batched hands to the verifier's append.
verify_batched(s, R, t, pubkey) ==
    LET c == Challenge(t, pubkey, R) IN
    [basepoint_scalar |-> SNeg(s),
     dynamic_scalars  |-> <<ScalarOne, c>>,
     dynamic_points   |-> <<decompress(pubkey.g), decompress(R), decompress(pubkey.h)>>]

\* SingleVerifier::append without the test for the identity.
SingleVerifier_append_unchecked(eq) ==
    LET scalars == <<eq.basepoint_scalar>> \o eq.dynamic_scalars
        points  == eq.dynamic_points
        result  == optional_multiscalar_mul(scalars, points)
    IN  IF ~Has(result) THEN InvalidSignature ELSE Ok

\* SingleVerifier::append: the result the verifier holds after the append.
SingleVerifier_append(eq) ==
    LET scalars == <<eq.basepoint_scalar>> \o eq.dynamic_scalars
        points  == eq.dynamic_points
        result  == optional_multiscalar_mul(scalars, points)
    IN  IF ~Has(result) THEN InvalidSignature
        ELSE IF is_identity(Get(result)) THEN Ok ELSE InvalidSignature

\* The closure of SingleVerifier::verify is the sequence of the equations it
\* appends; each append replaces the result the verifier holds.
RECURSIVE SingleVerifier_run(_, _)
SingleVerifier_run(result, closure) ==
    IF closure = <<>> THEN result
    ELSE SingleVerifier_run(SingleVerifier_append(Head(closure)), Tail(closure))

\* SingleVerifier::verify with a verifier whose result starts as Ok.
SingleVerifier_verify_ok_start(closure) == SingleVerifier_run(Ok, closure)

\* SingleVerifier::verify: the result starts as InvalidSignature, the closure
\* runs, and the result then held is returned.
SingleVerifier_verify(closure) == SingleVerifier_run(InvalidSignature, closure)

\* Signature::verify: SingleVerifier::verify with the closure that appends
\* the one equation of verify_batched.
verify(s, R, t, pubkey) == SingleVerifier_verify(<<verify_batched(s, R, t, pubkey)>>)

(***************************************************************************)
(* The message API.                                                        *)
(***************************************************************************)
\* transcript_for_message with the tag of the documentation's batch example.
transcript_for_message_elgamal(label, message) ==
    append_message(TranscriptNew(ElgamalTag), label, message)

transcript_for_message(label, message) ==
    append_message(TranscriptNew(SignMessageTag), label, message)

\* sign_message, the generator of sign yielding the nonce r.
sign_message(label, message, pubkey, privkey, r) ==
    sign(transcript_for_message(label, message), pubkey, privkey, r)

\* verify_message of the signature with the fields s and R.
verify_message(s, R, label, message, pubkey) ==
    verify(s, R, transcript_for_message(label, message), pubkey)

(***************************************************************************)
(* The batch verifier.                                                     *)
(***************************************************************************)
RECURSIVE Scale(_, _)
Scale(r, scalars) ==
    IF scalars = <<>> THEN <<>>
    ELSE <<SMul(r, Head(scalars))>> \o Scale(r, Tail(scalars))

\* BatchVerifier::append with the leading scalar left unweighted.
BatchVerifier_append_unweighted(b, r, eq) ==
    [dyn_weights |-> (b.dyn_weights \o <<eq.basepoint_scalar>>)
                         \o Scale(r, eq.dynamic_scalars),
     dyn_points  |-> b.dyn_points \o eq.dynamic_points]

\* BatchVerifier::append keeping the entries of the last call only.
BatchVerifier_append_replace(b, r, eq) ==
    [dyn_weights |-> <<SMul(r, eq.basepoint_scalar)>> \o Scale(r, eq.dynamic_scalars),
     dyn_points  |-> eq.dynamic_points]

\* BatchVerifier::append putting the new entries before the accumulated ones.
BatchVerifier_append_front(b, r, eq) ==
    [dyn_weights |-> (<<SMul(r, eq.basepoint_scalar)>> \o Scale(r, eq.dynamic_scalars))
                         \o b.dyn_weights,
     dyn_points  |-> eq.dynamic_points \o b.dyn_points]

\* BatchVerifier::append with the weight r that the verifier's generator yields.
BatchVerifier_append(b, r, eq) ==
    [dyn_weights |-> (b.dyn_weights \o <<SMul(r, eq.basepoint_scalar)>>)
                         \o Scale(r, eq.dynamic_scalars),
     dyn_points  |-> b.dyn_points \o eq.dynamic_points]

\* BatchVerifier::verify reporting a sum that is not the identity as
\* InvalidSignature.
BatchVerifier_verify_kind(b) ==
    IF b.dyn_weights = <<>> /\ b.dyn_points = <<>> THEN Ok
    ELSE LET result == optional_multiscalar_mul(b.dyn_weights, b.dyn_points) IN
         IF ~Has(result) THEN InvalidBatch
         ELSE IF is_identity(Get(result)) THEN Ok ELSE InvalidSignature

\* BatchVerifier::verify reporting a point that failed to decompress as
\* InvalidSignature, the way SingleVerifier::append does.
BatchVerifier_verify_missing_kind(b) ==
    IF b.dyn_weights = <<>> /\ b.dyn_points = <<>> THEN Ok
    ELSE LET result == optional_multiscalar_mul(b.dyn_weights, b.dyn_points) IN
         IF ~Has(result) THEN InvalidSignature
         ELSE IF is_identity(Get(result)) THEN Ok ELSE InvalidBatch

\* BatchVerifier::verify
BatchVerifier_verify(b) ==
    IF b.dyn_weights = <<>> /\ b.dyn_points = <<>> THEN Ok
    ELSE LET result == optional_multiscalar_mul(b.dyn_weights, b.dyn_points) IN
         IF ~Has(result) THEN InvalidBatch
         ELSE IF is_identity(Get(result)) THEN Ok ELSE InvalidBatch

(***************************************************************************)
(* The state: the key and the signature the caller holds, the last call    *)
(* and what it returned, whether a call has panicked, and the batch        *)
(* verifier with the record of what was appended to it.                    *)
(***************************************************************************)
NoBatch == [dyn_weights |-> <<>>, dyn_points |-> <<>>]

Init ==
    /\ key = NoVal
    /\ sig = NoVal
    /\ last = [op |-> "none"]
    /\ panicked = FALSE
    /\ batch = NoBatch
    /\ eqs = <<>>
    /\ batchResult = NoVal

\* VerificationKey::from_secret(privkey, r)
KeyFromSecret(privkey, r) ==
    /\ ~panicked
    /\ key' = Some(from_secret(privkey, r))
    /\ last' = [op |-> "from_secret"]
    /\ UNCHANGED <<sig, panicked, batch, eqs, batchResult>>

\* VerificationKey::to_bytes and to_bytes_array of the key held.
KeyToBytes ==
    /\ ~panicked
    /\ Has(key)
    /\ last' = [op |-> "to_bytes", bytes |-> to_bytes(Get(key)),
                array |-> to_bytes_array(Get(key))]
    /\ UNCHANGED <<key, sig, panicked, batch, eqs, batchResult>>

\* VerificationKey::from_bytes(bytes); the caller holds the key on Ok.  The
\* key encoded by the call before, when there was one, is remembered so that
\* a round trip can be told.
KeyFromBytes(bytes) ==
    /\ ~panicked
    /\ LET ret == from_bytes(bytes) IN
       /\ last' = [op |-> "from_bytes", input |-> bytes, ret |-> ret,
                   encoded |-> IF last.op = "to_bytes" /\ bytes \in {last.bytes, last.array}
                               THEN key ELSE NoVal]
       /\ key' = IF ret.ok THEN Some(ret.key) ELSE key
    /\ UNCHANGED <<sig, panicked, batch, eqs, batchResult>>

\* Signature::sign(transcript, key, privkey), the generator yielding nonce.
Sign(t, privkey, nonce) ==
    /\ ~panicked
    /\ Has(key)
    /\ LET ret == sign(t, Get(key), privkey, nonce) IN
       IF ret.panic
       THEN /\ panicked' = TRUE
            /\ last' = [op |-> "sign", t |-> t]
            /\ UNCHANGED sig
       ELSE /\ sig' = Some([s |-> ret.s, R |-> ret.R, made |-> "sign", t |-> t,
                            key |-> Get(key), privkey |-> privkey, nonce |-> nonce])
            /\ last' = [op |-> "sign", t |-> t]
            /\ UNCHANGED panicked
    /\ UNCHANGED <<key, batch, eqs, batchResult>>

\* A Signature built from its public fields s and R.
SignatureLiteral(s, R) ==
    /\ ~panicked
    /\ sig' = Some([s |-> s, R |-> R, made |-> "literal", t |-> <<>>,
                    key |-> DefaultKey, privkey |-> 0, nonce |-> 0])
    /\ last' = [op |-> "literal"]
    /\ UNCHANGED <<key, panicked, batch, eqs, batchResult>>

\* Signature::verify(transcript, key) of the signature held, with the key held.
Verify(t) ==
    /\ ~panicked
    /\ Has(key)
    /\ Has(sig)
    /\ last' = [op |-> "verify", t |-> t,
                ret |-> verify(Get(sig).s, Get(sig).R, t, Get(key))]
    /\ UNCHANGED <<key, sig, panicked, batch, eqs, batchResult>>

Next ==
    \/ \E privkey \in Secrets, r \in Rands : KeyFromSecret(privkey, r)
    \/ KeyToBytes
    \/ \E bytes \in KeyInputs \cup
                    (IF last.op = "to_bytes" THEN {last.bytes, last.array} ELSE {}) :
           KeyFromBytes(bytes)
    \/ \E t \in Transcripts, privkey \in Secrets, nonce \in Nonces : Sign(t, privkey, nonce)
    \/ \E s \in Scalars, R \in {BadEncoding, compress(1)} : SignatureLiteral(s, R)
    \/ \E t \in Transcripts : Verify(t)

Spec == Init /\ [][Next]_vars

(***************************************************************************)
(* The batch verifier's runs: signatures are appended with verify_batched, *)
(* then the batch is resolved once.  A signature appended is one that sign *)
(* made, and it is appended with a transcript and a key of the caller's     *)
(* choice.                                                                 *)
(***************************************************************************)
\* The signers <<privkey, r, nonce>> whose signatures are appended.
BatchSigners == {<<1, 1, 2>>, <<0, 2, 3>>}
BatchTranscripts == {TranscriptNew(<<1>>), TranscriptNew(<<2>>)}

\* The signature sign makes on TranscriptNew(<<1>>) for a signer, with the
\* transcript and the key it was made with.
Signed(privkey, r, nonce) ==
    LET t == TranscriptNew(<<1>>)
        pubkey == from_secret(privkey, r)
        made == sign(t, pubkey, privkey, nonce)
    IN  [s |-> made.s, R |-> made.R, t |-> t, key |-> pubkey]
SignedSignatures == {Signed(x[1], x[2], x[3]) : x \in BatchSigners}

BatchKeys ==
    {sg.key : sg \in SignedSignatures} \cup {from_compressed(BadEncoding, compress(1))}

\* verify_batched on a verifier that BatchVerifier::verify may have consumed.
BatchAppend_after_resolve(sg, transcript, pubkey, weight) ==
    /\ Len(eqs) < MaxBatch
    /\ LET eq == verify_batched(sg.s, sg.R, transcript, pubkey) IN
       /\ batch' = BatchVerifier_append(batch, weight, eq)
       /\ eqs' = Append(eqs, [weight |-> weight,
                              honest |-> transcript = sg.t /\ pubkey = sg.key,
                              single |-> SingleVerifier_append(eq),
                              eq |-> eq,
                              s |-> sg.s, R |-> sg.R,
                              transcript |-> transcript, pubkey |-> pubkey])
    /\ UNCHANGED <<key, sig, last, panicked, batchResult>>

\* Signature::verify_batched(transcript, pubkey, batch) of a signature sg
\* that sign made; the batch's generator yields weight.  The verifier is one
\* that BatchVerifier::verify, which takes it by value, has not consumed.
BatchAppend(sg, transcript, pubkey, weight) ==
    /\ ~Has(batchResult)
    /\ Len(eqs) < MaxBatch
    /\ LET eq == verify_batched(sg.s, sg.R, transcript, pubkey) IN
       /\ batch' = BatchVerifier_append(batch, weight, eq)
       /\ eqs' = Append(eqs, [weight |-> weight,
                              honest |-> transcript = sg.t /\ pubkey = sg.key,
                              single |-> SingleVerifier_append(eq),
                              eq |-> eq,
                              s |-> sg.s, R |-> sg.R,
                              transcript |-> transcript, pubkey |-> pubkey])
    /\ UNCHANGED <<key, sig, last, panicked, batchResult>>

\* BatchVerifier::verify, which consumes the verifier.
BatchVerify ==
    /\ ~Has(batchResult)
    /\ batchResult' = Some(BatchVerifier_verify(batch))
    /\ UNCHANGED <<key, sig, last, panicked, batch, eqs>>

NextBatch ==
    \/ \E sg \in SignedSignatures, transcript \in BatchTranscripts,
          pubkey \in BatchKeys, weight \in Scalars :
           BatchAppend(sg, transcript, pubkey, weight)
    \/ BatchVerify

SpecBatch == Init /\ [][NextBatch]_vars

(***************************************************************************)
(* The message API's runs: signatures that sign_message made are verified  *)
(* with verify_message, under a label, a message and a key of the caller's *)
(* choice, and appended to a batch with verify_batched and a transcript    *)
(* the caller builds by hand from a tag and the signature's label and      *)
(* message.                                                                *)
(***************************************************************************)
\* The signer <<privkey, r, nonce>> of the messages, and the keys verified with.
MessageSigner == <<1, 1, 2>>
MessageKeys == {from_secret(MessageSigner[1], MessageSigner[2]), from_secret(2, 1)}

SignedMessage(label, message) ==
    LET pubkey == from_secret(MessageSigner[1], MessageSigner[2])
        made == sign_message(label, message, pubkey, MessageSigner[1], MessageSigner[3])
    IN  [s |-> made.s, R |-> made.R, label |-> label, message |-> message, key |-> pubkey]
SignedMessages == {SignedMessage(x[1], x[2]) : x \in MessageInputs}

\* Signature::verify_message(label, message, pubkey) of a signature sg that
\* sign_message made.
VerifyMessage(sg, label, message, pubkey) ==
    /\ ~panicked
    /\ last' = [op |-> "verify_message", s |-> sg.s, R |-> sg.R,
                label |-> label, message |-> message, key |-> pubkey,
                signed |-> [label |-> sg.label, message |-> sg.message, key |-> sg.key],
                ret |-> verify_message(sg.s, sg.R, label, message, pubkey)]
    /\ UNCHANGED <<key, sig, panicked, batch, eqs, batchResult>>

\* Signature::verify_batched of a signature sg that sign_message made, with
\* the signer's key and the transcript Transcript::new(tag) that has absorbed
\* the signature's message under its label; the batch's generator yields weight.
AppendByHand(sg, tag, weight) ==
    /\ ~Has(batchResult)
    /\ Len(eqs) < MaxHandAppends
    /\ LET transcript == append_message(TranscriptNew(tag), sg.label, sg.message)
           eq == verify_batched(sg.s, sg.R, transcript, sg.key)
       IN  /\ batch' = BatchVerifier_append(batch, weight, eq)
           /\ eqs' = Append(eqs, [weight |-> weight,
                                  honest |-> tag = SignMessageTag,
                                  single |-> SingleVerifier_append(eq),
                                  eq |-> eq,
                                  s |-> sg.s, R |-> sg.R,
                                  transcript |-> transcript, pubkey |-> sg.key,
                                  tag |-> tag])
    /\ UNCHANGED <<key, sig, last, panicked, batchResult>>

NextMessage ==
    \/ \E sg \in SignedMessages, x \in MessageInputs, pubkey \in MessageKeys :
           VerifyMessage(sg, x[1], x[2], pubkey)
    \/ \E sg \in SignedMessages, tag \in {SignMessageTag, ElgamalTag}, weight \in Scalars :
           AppendByHand(sg, tag, weight)
    \/ BatchVerify

SpecMessage == Init /\ [][NextMessage]_vars

(***************************************************************************)
(* The single verifier's runs: SingleVerifier::verify with a closure that  *)
(* appends the equations of signatures that sign made, each with a         *)
(* transcript and a key of the caller's choice.                            *)
(***************************************************************************)
ClosureEquations ==
    {verify_batched(sg.s, sg.R, transcript, pubkey) :
        sg \in SignedSignatures, transcript \in BatchTranscripts, pubkey \in BatchKeys}
Closures == UNION {[1 .. n -> ClosureEquations] : n \in 0 .. MaxAppends}

\* SingleVerifier::verify(closure)
SingleVerify(closure) ==
    /\ ~panicked
    /\ last' = [op |-> "single_verify", closure |-> closure,
                ret |-> SingleVerifier_verify(closure)]
    /\ UNCHANGED <<key, sig, panicked, batch, eqs, batchResult>>

NextSingle == \E closure \in Closures : SingleVerify(closure)

SpecSingle == Init /\ [][NextSingle]_vars

(***************************************************************************)
(* Properties of signing and single verification.                         *)
(***************************************************************************)
\* The signature held was made by sign under from_secret(x, r) with the
\* secret x itself.
SignedHonestly ==
    /\ Has(sig)
    /\ Get(sig).made = "sign"
    /\ \E r \in Scalars : Get(sig).key = from_secret(Get(sig).privkey, r)

Verified == last.op = "verify"

\* C1: a signature that sign made under from_secret(x, r) with secret x, for
\* any nonce, is accepted by verify on the transcript it was signed on and
\* with the key it was signed under.
C1_SignThenVerify ==
    (Verified /\ SignedHonestly /\ last.t = Get(sig).t /\ Get(key) = Get(sig).key)
        => last.ret = Ok

C1_Witness ==
    /\ Verified /\ SignedHonestly
    /\ last.t = Get(sig).t /\ Get(key) = Get(sig).key
    /\ Get(sig).nonce # 0 /\ Get(sig).privkey # 0
    /\ Get(sig).key.g # compress(Identity)
    /\ last.ret = Ok

\* The equation of single verification, stated on the points: g, R and h all
\* decompress and (-s)g + R + c h is the identity, c being the challenge
\* drawn after the domain tag, g, h and R were absorbed into t.
EquationHolds(s, R, t, pubkey) ==
    LET c == challenge_scalar(
                 append_point(
                     append_point(
                         append_point(zkschnorr_domain_sep(t), LabelG, pubkey.g),
                         LabelH, pubkey.h),
                     LabelR, R),
                 LabelChallenge)
        G == decompress(pubkey.g)
        Rp == decompress(R)
        H == decompress(pubkey.h)
    IN  /\ Has(G) /\ Has(Rp) /\ Has(H)
        /\ PAdd(PAdd(PMul(SNeg(s), Get(G)), Get(Rp)), PMul(c, Get(H))) = Identity

\* C2: verify returns Ok exactly when g, R and h decompress and the equation
\* holds, and Err(InvalidSignature) in every other case.
C2_VerifyIffEquation ==
    Verified =>
        /\ last.ret \in {Ok, InvalidSignature}
        /\ last.ret = Ok <=> EquationHolds(Get(sig).s, Get(sig).R, last.t, Get(key))

C2_Witness ==
    /\ Verified
    /\ last.ret = InvalidSignature
    /\ ~Has(decompress(Get(sig).R))
    /\ Has(decompress(Get(key).g)) /\ Has(decompress(Get(key).h))

\* The key held is from_secret(x2, r) for a secret x2 other than the signer's
\* secret x and the r of the signer's key from_secret(x, r).
OtherSecretSameRand(r) ==
    /\ Get(sig).key = from_secret(Get(sig).privkey, r)
    /\ \E x2 \in Scalars : x2 # Get(sig).privkey /\ Get(key) = from_secret(x2, r)

\* C5 as stated: a signature made under from_secret(x, r) is rejected by
\* verify under from_secret(x2, r), x2 # x, on the same transcript, for every
\* x, x2 and r.
C5_KeyMismatchRejected ==
    (Verified /\ SignedHonestly /\ last.t = Get(sig).t
        /\ \E r \in Scalars : OtherSecretSameRand(r))
        => last.ret # Ok

\* The challenges drawn at signing and at the verification last made.
SignChallenge == Challenge(Get(sig).t, Get(sig).key, Get(sig).R)
VerifyChallenge == Challenge(last.t, Get(key), Get(sig).R)

\* The secret x2 with key = from_secret(x2, r), for r # 0.
HeldSecret(r) == CHOOSE x2 \in Scalars : Get(key) = from_secret(x2, r)

\* C5 amended: the signature is rejected with InvalidSignature when r # 0 and
\* c2 * x2 # c * x modulo the group order, c and c2 being the challenges of
\* signing and of verification.
C5_KeyMismatchRejectedUnlessDegenerate ==
    \A r \in Scalars \ {0} :
        (Verified /\ SignedHonestly /\ last.t = Get(sig).t /\ OtherSecretSameRand(r)
            /\ SMul(VerifyChallenge, HeldSecret(r)) # SMul(SignChallenge, Get(sig).privkey))
            => last.ret = InvalidSignature

C5_Witness ==
    /\ Verified /\ SignedHonestly /\ last.t = Get(sig).t
    /\ \E r \in Scalars \ {0} :
          /\ OtherSecretSameRand(r)
          /\ SMul(VerifyChallenge, HeldSecret(r)) # SMul(SignChallenge, Get(sig).privkey)
    /\ last.ret = InvalidSignature

\* C6 as stated: a signature made by sign on transcript t under a key is
\* rejected by verify under that key on every transcript other than t.
C6_TranscriptMismatchRejected ==
    (Verified /\ SignedHonestly /\ Get(key) = Get(sig).key /\ last.t # Get(sig).t)
        => last.ret # Ok

\* C6 amended: the signature is rejected with InvalidSignature when the
\* secret x and r are not zero and the two transcripts yield different
\* challenges.
C6_TranscriptMismatchRejectedUnlessDegenerate ==
    (Verified /\ SignedHonestly /\ Get(key) = Get(sig).key /\ last.t # Get(sig).t
        /\ Get(sig).privkey # 0
        /\ Get(sig).key.g # compress(Identity)
        /\ VerifyChallenge # SignChallenge)
        => last.ret = InvalidSignature

C6_Witness ==
    /\ Verified /\ SignedHonestly /\ Get(key) = Get(sig).key /\ last.t # Get(sig).t
    /\ Get(sig).privkey # 0
    /\ Get(sig).key.g # compress(Identity)
    /\ VerifyChallenge # SignChallenge
    /\ last.ret = InvalidSignature

\* C7: no operation that decompresses a group element crashes on an element
\* that fails to decompress.
C7_NoCrash == ~panicked

(***************************************************************************)
(* Properties of the key's encoding.                                       *)
(***************************************************************************)
Decoded == last.op = "from_bytes"

\* C8 as stated: an input whose length is not 64 is rejected by from_bytes
\* with a failure that is neither InvalidSignature nor InvalidBatch.
C8_WrongLengthDistinctFailure ==
    (Decoded /\ Len(last.input) # 64)
        => (~last.ret.ok /\ last.ret.err \notin {InvalidSignature, InvalidBatch})

\* C8 amended: an input whose length is not 64 is rejected by
\* VerificationKey::from_bytes with Err(InvalidSignature).
C8_WrongLengthInvalidSignature ==
    (Decoded /\ Len(last.input) # 64)
        => (~last.ret.ok /\ last.ret.err = InvalidSignature)

C8_Witness ==
    /\ Decoded /\ Len(last.input) = 65
    /\ ~last.ret.ok /\ last.ret.err = InvalidSignature

\* C9: to_bytes is 64 bytes, the 32 of g then the 32 of h; to_bytes_array
\* holds the same bytes; from_bytes of either returns the key encoded.
C9_KeyRoundTrip ==
    /\ last.op = "to_bytes" =>
          /\ Len(last.bytes) = 64
          /\ SubSeq(last.bytes, 1, 32) = Get(key).g
          /\ SubSeq(last.bytes, 33, 64) = Get(key).h
          /\ DOMAIN last.array = 1 .. 64
          /\ \A i \in 1 .. 64 : last.array[i] = last.bytes[i]
    /\ (Decoded /\ Has(last.encoded)) =>
          /\ last.ret.ok
          /\ last.ret.key = Get(last.encoded)
          /\ key = last.encoded

C9_Witness ==
    /\ Decoded /\ Has(last.encoded)
    /\ Get(last.encoded).g # Get(last.encoded).h
    /\ last.ret.ok /\ last.ret.key = Get(last.encoded)

\* A half of the key held fails to decompress.
KeyUndecodable ==
    Has(key) /\ (~Has(decompress(Get(key).g)) \/ ~Has(decompress(Get(key).h)))

\* C10: from_bytes returns Ok for every input of 64 bytes, and a key with a
\* half that does not decompress is rejected by verify with InvalidSignature.
C10_DeferredValidation ==
    /\ (Decoded /\ Len(last.input) = 64) =>
          (last.ret.ok /\ to_bytes(last.ret.key) = last.input)
    /\ (Verified /\ KeyUndecodable) => last.ret = InvalidSignature

C10_Witness ==
    /\ Verified /\ KeyUndecodable
    /\ Get(sig).made = "sign"
    /\ last.ret = InvalidSignature

(***************************************************************************)
(* Properties of batch verification.                                       *)
(***************************************************************************)
Resolved == Has(batchResult)

\* The equations appended that single verification would reject.
InvalidEquations == {i \in 1 .. Len(eqs) : eqs[i].single # Ok}

\* C3 as stated: a batch with exactly one invalid equation resolves to
\* Err(InvalidBatch), whatever the weights drawn.
C3_OneInvalidFailsBatch ==
    (Resolved /\ Cardinality(InvalidEquations) = 1)
        => Get(batchResult) = InvalidBatch

\* C3 amended: a batch with exactly one invalid equation resolves to
\* Err(InvalidBatch) whenever the weight drawn for that equation is not zero.
C3_OneInvalidFailsBatchUnlessZeroWeight ==
    (Resolved /\ Cardinality(InvalidEquations) = 1
        /\ \A i \in InvalidEquations : eqs[i].weight # 0)
        => Get(batchResult) = InvalidBatch

C3_Witness ==
    /\ Resolved /\ Len(eqs) = 2
    /\ InvalidEquations = {2}
    /\ eqs[1].honest /\ eqs[1].weight # 0
    /\ eqs[2].weight # 0
    /\ \A j \in 1 .. Len(batch.dyn_points) : Has(batch.dyn_points[j])
    /\ Get(batchResult) = InvalidBatch

\* C4: a batch to which only signatures with the transcript they were signed
\* on and the signer's key were appended resolves to Ok, whatever the weights
\* drawn; so does a batch to which nothing was appended.
C4_ValidBatchAccepted ==
    (Resolved /\ \A i \in 1 .. Len(eqs) : eqs[i].honest)
        => Get(batchResult) = Ok

C4_Witness ==
    /\ Resolved /\ Len(eqs) = 2
    /\ \A i \in 1 .. Len(eqs) : eqs[i].honest
    /\ eqs[1].weight > 1 /\ eqs[2].weight > 1 /\ eqs[1].weight # eqs[2].weight
    /\ batch.dyn_points[1] # batch.dyn_points[4]
    /\ Get(batchResult) = Ok

\* Every point accumulated is present, that is, it decompressed.
AllPresent == \A j \in 1 .. Len(batch.dyn_points) : Has(batch.dyn_points[j])

\* The sum of weight_j * point_j over the first n accumulated pairs.
RECURSIVE WeightedSumTo(_)
WeightedSumTo(n) ==
    IF n = 0 THEN Identity
    ELSE (WeightedSumTo(n - 1) + batch.dyn_weights[n] * Get(batch.dyn_points[n])) % Order

\* C11: on a non-empty accumulator BatchVerifier::verify returns Ok exactly
\* when every accumulated point is present and the sum of weight * point over
\* all pairs is the identity, and Err(InvalidBatch), never InvalidSignature,
\* in every other case.
C11_BatchResolveResult ==
    (Resolved /\ batch # NoBatch) =>
        /\ Get(batchResult) \in {Ok, InvalidBatch}
        /\ Get(batchResult) = Ok <=>
              (AllPresent /\ WeightedSumTo(Len(batch.dyn_weights)) = Identity)

C11_Witness ==
    /\ Resolved /\ Len(eqs) = 2
    /\ eqs[1].honest /\ eqs[1].weight # 0
    /\ ~Has(batch.dyn_points[4])
    /\ Has(batch.dyn_points[5]) /\ Has(batch.dyn_points[6])
    /\ Get(batchResult) = InvalidBatch

\* The equation and the weight of the append a step makes, when it makes one.
Appends == Len(eqs') = Len(eqs) + 1
Appended == eqs'[Len(eqs')]

\* C12: an append multiplies the leading scalar and every dynamic scalar of
\* its equation by the one weight drawn for the call, and puts the weighted
\* scalars and the unweighted points, in their order, at the end of the
\* accumulator; what was accumulated before stays as it was.
C12_AppendWeightsAndExtends ==
    [][Appends =>
        LET w == Appended.weight
            eq == Appended.eq
        IN  /\ batch'.dyn_weights =
                   (batch.dyn_weights \o <<(w * eq.basepoint_scalar) % Order>>)
                   \o [i \in 1 .. Len(eq.dynamic_scalars) |->
                          (w * eq.dynamic_scalars[i]) % Order]
            /\ batch'.dyn_points = batch.dyn_points \o eq.dynamic_points]_vars

C12_Witness ==
    /\ Len(eqs) = 2
    /\ eqs[1].weight > 1 /\ eqs[2].weight > 1 /\ eqs[1].weight # eqs[2].weight
    /\ eqs[1].eq.dynamic_scalars[2] > 1 /\ eqs[2].eq.dynamic_scalars[2] > 1
    /\ batch.dyn_weights[3] = (eqs[1].weight * eqs[1].eq.dynamic_scalars[2]) % Order
    /\ batch.dyn_weights[6] = (eqs[2].weight * eqs[2].eq.dynamic_scalars[2]) % Order
    /\ batch.dyn_weights[3] # batch.dyn_weights[6]

\* The orders in which n equations can be appended.
Orders(n) == {p \in [1 .. n -> 1 .. n] : \A i, j \in 1 .. n : p[i] = p[j] => i = j}

\* The accumulator after the first n equations of order p were appended to a
\* new verifier, each with the weight it had.
RECURSIVE AppendedInOrder(_, _)
AppendedInOrder(p, n) ==
    IF n = 0 THEN NoBatch
    ELSE BatchVerifier_append(AppendedInOrder(p, n - 1), eqs[p[n]].weight, eqs[p[n]].eq)

\* C15: the result of BatchVerifier::verify is the result of resolving the
\* same equations, each with the weight it had, appended in any other order.
C15_OrderIndependence ==
    Resolved =>
        \A p \in Orders(Len(eqs)) :
            BatchVerifier_verify(AppendedInOrder(p, Len(eqs))) = Get(batchResult)

C15_Witness ==
    /\ Resolved /\ Len(eqs) = 2
    /\ eqs[1].eq # eqs[2].eq
    /\ eqs[1].weight # 0 /\ eqs[2].weight # 0 /\ eqs[1].weight # eqs[2].weight
    /\ eqs[1].single # Ok /\ eqs[2].single = Ok
    /\ AllPresent
    /\ AppendedInOrder([i \in 1 .. 2 |-> 3 - i], 2) # batch
    /\ Get(batchResult) = InvalidBatch

\* C16: once BatchVerifier::verify has been called on an accumulator, no
\* append to it and no second verify of it happens: the accumulator and its
\* one result stay as they are.
C16_ConsumedOnce ==
    [][Resolved => (batch' = batch /\ eqs' = eqs /\ batchResult' = batchResult)]_vars

C16_Witness ==
    /\ Resolved
    /\ Len(eqs) > 0 /\ Len(eqs) < MaxBatch

\* The accumulator holds three weights and three points for each call of
\* verify_batched: the call's weight times -s, 1 and c, and the points g, R
\* and h as they decompressed, c being the challenge of the call.
AccumulatorShape ==
    /\ Len(batch.dyn_weights) = 3 * Len(eqs)
    /\ Len(batch.dyn_points) = 3 * Len(eqs)
    /\ \A i \in 1 .. Len(eqs) :
          LET e == eqs[i]
              c == Challenge(e.transcript, e.pubkey, e.R)
              at == 3 * (i - 1)
          IN  /\ batch.dyn_weights[at + 1] = (e.weight * ((Order - e.s) % Order)) % Order
              /\ batch.dyn_weights[at + 2] = e.weight % Order
              /\ batch.dyn_weights[at + 3] = (e.weight * c) % Order
              /\ batch.dyn_points[at + 1] = decompress(e.pubkey.g)
              /\ batch.dyn_points[at + 2] = decompress(e.R)
              /\ batch.dyn_points[at + 3] = decompress(e.pubkey.h)

\* C19: after N calls of verify_batched on a new BatchVerifier the
\* accumulator holds 3N weights and 3N points, the i-th call's weighted
\* (-s, 1, c) aligned with (g, R, h); and a call of verify_batched reports
\* nothing: no result and no failure comes of it.
C19_AccumulatorShape ==
    /\ []AccumulatorShape
    /\ [][Appends => UNCHANGED <<batchResult, last, panicked>>]_vars

C19_Witness ==
    /\ ~Resolved /\ Len(eqs) = 2
    /\ Len(batch.dyn_weights) = 6 /\ Len(batch.dyn_points) = 6
    /\ eqs[1].weight > 1 /\ eqs[2].weight > 1
    /\ eqs[2].single # Ok /\ ~Has(batch.dyn_points[4])
    /\ batch.dyn_weights[6] # batch.dyn_weights[5]

(***************************************************************************)
(* Properties of the single verifier.                                      *)
(***************************************************************************)
SingleVerified == last.op = "single_verify"

\* An equation holds: all its points are present and the sum of its scalars,
\* the leading one first, times its points is the identity.
RECURSIVE EquationSum(_, _, _)
EquationSum(scalars, points, n) ==
    IF n = 0 THEN Identity
    ELSE (EquationSum(scalars, points, n - 1) + scalars[n] * Get(points[n])) % Order
Holds(eq) ==
    /\ \A j \in 1 .. Len(eq.dynamic_points) : Has(eq.dynamic_points[j])
    /\ EquationSum(<<eq.basepoint_scalar>> \o eq.dynamic_scalars, eq.dynamic_points,
                   Len(eq.dynamic_points)) = Identity

\* C13: SingleVerifier::verify returns Ok only if every equation its closure
\* appended holds, and Err(InvalidSignature) if any of them fails, whatever
\* its place among the appends.
C13_AllOrNothing ==
    SingleVerified =>
        /\ last.ret = Ok => \A i \in 1 .. Len(last.closure) : Holds(last.closure[i])
        /\ (\E i \in 1 .. Len(last.closure) : ~Holds(last.closure[i]))
              => last.ret = InvalidSignature

\* C14: SingleVerifier::verify with a closure that appends nothing returns
\* Err(InvalidSignature): the result is InvalidSignature from the verifier's
\* creation until an append has run.
C14_SentinelResult ==
    (SingleVerified /\ last.closure = <<>>) => last.ret = InvalidSignature

C14_Witness ==
    /\ SingleVerified /\ Len(last.closure) = 0
    /\ last.ret = InvalidSignature

(***************************************************************************)
(* Properties of the message API.                                          *)
(***************************************************************************)
VerifiedMessage == last.op = "verify_message"

\* The transcript a caller builds by hand: created with tag, then message
\* absorbed under label.
HandBuilt(tag, label, message) ==
    (LabelDomSep \o <<Len(tag)>> \o tag) \o (label \o <<Len(message)>> \o message)

\* C17: verify_message(label, message, key) returns what verify returns on
\* the transcript created with the tag zkschnorr.sign_message that has
\* absorbed message under label; sign_message signs over that transcript, so
\* its signature is accepted by verify_message with the label, message and
\* key it was made with, and by verify_batched and BatchVerifier::verify when
\* the caller builds that transcript by hand.
C17_MessageApiIsWrapper ==
    /\ VerifiedMessage =>
          /\ last.ret \in {Ok, InvalidSignature}
          /\ last.ret = Ok <=>
                EquationHolds(last.s, last.R,
                              HandBuilt(SignMessageTag, last.label, last.message), last.key)
    /\ (VerifiedMessage /\ last.label = last.signed.label
           /\ last.message = last.signed.message /\ last.key = last.signed.key)
          => last.ret = Ok
    /\ (Resolved /\ \A i \in 1 .. Len(eqs) : eqs[i].tag = SignMessageTag)
          => Get(batchResult) = Ok

C17_Witness ==
    /\ VerifiedMessage /\ last.ret = Ok
    /\ last.label = last.signed.label /\ last.message = last.signed.message
    /\ Resolved /\ Len(eqs) > 0
    /\ \A i \in 1 .. Len(eqs) : eqs[i].tag = SignMessageTag /\ eqs[i].weight > 1
    /\ Get(batchResult) = Ok

\* C18: signatures that sign_message made are accepted by BatchVerifier::verify
\* when each was appended through verify_batched with a transcript created
\* with the tag Elgamal.sign_message that has absorbed the signature's message
\* under its label.
C18_ElgamalTagAccepted ==
    (Resolved /\ Len(eqs) > 0 /\ \A i \in 1 .. Len(eqs) : eqs[i].tag = ElgamalTag)
        => Get(batchResult) = Ok

====
